---- MODULE Spec2Model ----
(***************************************************************************)
(* Model of the RustQIP simulation pipeline (src/src/qip/pipeline.rs):     *)
(* the backward linearizer get_opfns_and_frontier, the runner              *)
(* run / run_with_state and the double-buffered LocalQuantumState.         *)
(* The circuit functions of src/src/common_circuits.rs (condition, cnot,   *)
(* cswap, cmat, crealmat, epr_pair) build graphs that are then run.        *)
(*                                                                         *)
(* Registers (Qubit) are named by their id: Qubit's Eq and Ord compare the *)
(* id only, and ids are unique (the identifier imposes a total order).     *)
(* Amplitudes are integers: a Hadamard is applied without its 1/sqrt(2)    *)
(* factor, so every amplitude is the true one times a power of sqrt(2).    *)
(***************************************************************************)
EXTENDS Integers, Sequences, FiniteSets, Bags, TLC

\* ---------------------------------------------------------------- bounds
NumRegs == 4        \* register ids of the graphs of Spec
WideRegs == 6       \* register ids of the graphs of SpecWide
MaxParents == 2     \* length of an Owned parent list
MaxWires == 2       \* indices.len() of a parent-less register
MaxN == 3           \* wire count of the states of SpecEngine
MaxOps == 3         \* length of the operation lists of SpecEngine
NumWorkers == 2     \* worker threads of the parallel kernel
CycleRegs == 3      \* register ids of the graphs of SpecCyclic
MaxPops == 8        \* loop iterations followed on a graph with a cycle
MaxPair == 2        \* the n of epr_pair(b, n)

\* The wire count above which apply_op runs its parallel path
\* (state_ops::PARALLEL_THRESHOLD, used at pipeline.rs:43).
PARALLEL_THRESHOLD == 1

\* The bits of the integer that `1 << n` shifts (pipeline.rs:27).
ShiftWidth == 32

Workers == 1..NumWorkers
OpKinds == {"not", "h"}

VARIABLES
    cfg,              \* what the builder may use: [regs, wires, kinds],
                      \* and whether the build checks integer overflow
    parent,           \* Qubit.parent of every register id
    indices_len,      \* Qubit.indices.len() of every register id
    terminal,         \* the register handed to run
    pc,               \* position of the single thread of run
    heap,             \* get_opfns_and_frontier: the BinaryHeap
    frontier_qubits,  \* get_opfns_and_frontier: frontier_qubits
    fn_queue,         \* get_opfns_and_frontier: fn_queue
    frontier,         \* run_with_state: the returned frontier
    ops,              \* run_with_state: the returned operation list
    k,                \* run_with_state: operations taken from ops so far
    cur,              \* the operation of the running apply_op call
    n,                \* LocalQuantumState.n
    state,            \* LocalQuantumState.state
    arena,            \* LocalQuantumState.arena
    wdone,            \* workers of the running kernel that have finished
    popped,           \* history: registers popped, in order
    applied,          \* history: operations handed to apply_op, in order
    builds,           \* history: calls of the state builder
    swaps,            \* history: buffer swaps
    committed,        \* history: state as of the last swap (or as built)
    wlog,             \* history: <<worker, buffer, index>> written by the running kernel
    hazard,           \* history: a kernel read an index its own pass had written
    runs,             \* history: linearizations of this graph so far
    first,            \* history: result of the first linearization
    circ,             \* the circuit being built: [prog, n, prep, err]
    bpc,              \* position in the code that builds the circuit
    indices,          \* Register.indices of every register id
    loc,              \* local variables of the running circuit functions
    cond,             \* the control register a conditioned builder holds
    next_id,          \* OpBuilder: the id of the next register
    next_wire,        \* OpBuilder: the index of the next wire
    events            \* history: builder calls, in order

bldVars == <<circ, bpc, indices, loc, cond, next_id, next_wire, events>>
graphVars == <<cfg, parent, indices_len, terminal, bldVars>>
linVars == <<heap, frontier_qubits, fn_queue, popped>>
runVars == <<frontier, ops, k, cur, builds, applied>>
engVars == <<n, state, arena, wdone, swaps, committed, wlog, hazard>>
reVars == <<runs, first>>
vars == <<graphVars, linVars, runVars, engVars, reVars, pc>>

\* ------------------------------------------------- the provenance graph
Absent == [kind |-> "absent"]          \* no register has this id
Undecided == [kind |-> "undecided"]    \* created, parent not yet chosen
NoParent == [kind |-> "none"]          \* Qubit.parent = None
NoOp == [some |-> FALSE]
SomeOp(kind, wire) == [some |-> TRUE, kind |-> kind, wire |-> wire]
Owned(ps, op) == [kind |-> "owned", parents |-> ps, op |-> op]
Shared(r) == [kind |-> "shared", ref |-> r]

AllIds == 1..(IF NumRegs > WideRegs THEN NumRegs ELSE WideRegs)

Max(S) == CHOOSE x \in S : \A y \in S : y <= x

Parents(r) ==
    CASE parent[r].kind = "owned" -> parent[r].parents
      [] parent[r].kind = "shared" -> {parent[r].ref}
      [] OTHER -> {}

RECURSIVE ReachFrom(_, _)
ReachFrom(S, fuel) ==
    IF fuel = 0 THEN S
    ELSE ReachFrom(S \cup UNION {Parents(r) : r \in S}, fuel - 1)

\* The registers reachable from r, r included.
Reach(r) == ReachFrom({r}, Cardinality(AllIds))

\* The registers q is derived from (q excluded).
Ancestors(q) == ReachFrom(Parents(q), Cardinality(AllIds))

Unused == {r \in cfg.regs : parent[r].kind = "absent"}
Todo == {r \in cfg.regs : parent[r].kind = "undecided"}
Referents == {parent[r].ref : r \in {x \in cfg.regs : parent[x].kind = "shared"}}

LinInit ==
    /\ heap = EmptyBag
    /\ frontier_qubits = <<>>
    /\ fn_queue = <<>>
    /\ popped = <<>>

RunInit ==
    /\ frontier = <<>>
    /\ ops = <<>>
    /\ k = 0
    /\ cur = NoOp
    /\ builds = 0
    /\ applied = <<>>

EngInit ==
    /\ n = 0
    /\ state = <<>>
    /\ arena = <<>>
    /\ wdone = {}
    /\ swaps = 0
    /\ committed = <<>>
    /\ wlog = {}
    /\ hazard = FALSE

\* No circuit function is running: the graph is given as it is.
BldIdle ==
    /\ circ = [prog |-> "none"]
    /\ bpc = "idle"
    /\ indices = <<>>
    /\ loc = <<>>
    /\ cond = <<>>
    /\ next_id = 0
    /\ next_wire = 0
    /\ events = <<>>

GraphInit(regs, wires, kinds, terminals) ==
    /\ BldIdle
    /\ cfg = [regs |-> regs, wires |-> wires, kinds |-> kinds,
              overflow_checks |-> TRUE]
    /\ terminal \in terminals
    /\ parent = [r \in AllIds |-> IF r = terminal THEN Undecided ELSE Absent]
    /\ indices_len = [r \in AllIds |-> 0]
    /\ pc = "build"
    /\ runs = 0
    /\ first = <<>>

\* The terminal has the greatest id: it is alone in the heap when it is
\* popped, so its id is never compared.  Operations of the graphs are NOTs
\* on wire 0; SpecEngine applies every kind on every wire.
Init ==
    /\ GraphInit(1..NumRegs, MaxWires, {"not"}, {NumRegs})
    /\ LinInit /\ RunInit /\ EngInit

\* Graphs of up to WideRegs registers of one wire each.
InitWide ==
    /\ GraphInit(1..WideRegs, 1, {"not"}, {WideRegs})
    /\ LinInit /\ RunInit /\ EngInit

\* The operations a state of nn wires can be handed.
EngineOps(nn) == {[reg |-> 0, kind |-> kd, wire |-> w] : kd \in OpKinds, w \in 0..(nn - 1)}

\* The builder gives the next undecided register its parent, working down
\* from the terminal.  An Owned parent list holds its registers by value, so
\* they are new registers no one else refers to; a Shared referent is held
\* through a pointer, so it is either new or the referent of other aliases,
\* and never one the alias is derived from (the graph stays acyclic).
OpChoices == {NoOp} \cup {SomeOp(kd, 0) : kd \in cfg.kinds}

DecideFrontier(r) ==
    \E w \in 1..cfg.wires :
        /\ parent' = [parent EXCEPT ![r] = NoParent]
        /\ indices_len' = [indices_len EXCEPT ![r] = w]

DecideOwned(r) ==
    \E ps \in SUBSET Unused : \E op \in OpChoices :
        /\ Cardinality(ps) \in 1..MaxParents
        /\ parent' = [x \in AllIds |->
                        IF x = r THEN Owned(ps, op)
                        ELSE IF x \in ps THEN Undecided ELSE parent[x]]
        /\ UNCHANGED indices_len

DecideSharedNew(r) ==
    \E d \in Unused :
        /\ parent' = [parent EXCEPT ![r] = Shared(d), ![d] = Undecided]
        /\ UNCHANGED indices_len

DecideSharedAgain(r) ==
    \E d \in Referents :
        /\ r \notin Reach(d)
        /\ parent' = [parent EXCEPT ![r] = Shared(d)]
        /\ UNCHANGED indices_len

Decide ==
    /\ pc = "build"
    /\ Todo # {}
    /\ LET r == Max(Todo) IN
          \/ DecideFrontier(r)
          \/ DecideOwned(r)
          \/ DecideSharedNew(r)
          \/ DecideSharedAgain(r)
    /\ UNCHANGED <<cfg, terminal, pc, linVars, runVars, engVars, reVars, bldVars>>

\* A malformed graph: the parent of r is a register r is reachable from
\* (r itself included), through a Shared pointer or as the one element of
\* an Owned list, which closes a cycle.
DecideBack ==
    /\ pc = "build"
    /\ Todo # {}
    /\ LET r == Max(Todo) IN
          \E d \in {x \in cfg.regs : parent[x].kind # "absent" /\ r \in Reach(x)} :
              \/ parent' = [parent EXCEPT ![r] = Shared(d)]
              \/ \E op \in OpChoices : parent' = [parent EXCEPT ![r] = Owned({d}, op)]
    /\ UNCHANGED <<cfg, indices_len, terminal, pc, linVars, runVars, engVars,
                   reVars, bldVars>>

\* ------------------------------------------- get_opfns_and_frontier
\* BinaryHeap::pop removes a greatest element; Qubit's Ord compares ids.
HeapTopAny(h) == BagToSet(h)
HeapTopMin(h) == {q \in BagToSet(h) : \A x \in BagToSet(h) : q <= x}
HeapTop(h) == {q \in BagToSet(h) : \A x \in BagToSet(h) : x <= q}

HeapRemove(h, q) == h (-) SetToBag({q})

\* heap.extend(parents.iter()): every parent is pushed, no membership check.
HeapExtend(h, ps) == h (+) SetToBag(ps)

\* qubit_in_heap: some element of the heap equals q.
qubit_in_heap(q, h) == \E hq \in BagToSet(h) : hq = q

\* Parent::Shared: push the referent unless qubit_in_heap finds it.
PushSharedNever(h, p) == h
PushSharedAlways(h, p) == h (+) SetToBag({p})
PushShared(h, p) == IF ~qubit_in_heap(p, h) THEN h (+) SetToBag({p}) ELSE h

\* The reference to the QubitOp held by register q.
OpRef(q) == [reg |-> q, kind |-> parent[q].op.kind, wire |-> parent[q].op.wire]

\* fn_queue.push_front(op)
PushBack(queue, op) == queue \o <<op>>
PushFront(queue, op) == <<op>> \o queue

\* frontier_qubits.push(q)
FrontierPushFront(fq, q) == <<q>> \o fq
FrontierPush(fq, q) == Append(fq, q)

\* while heap.len() > 0
LoopCondAlways(h) == TRUE
LoopCond(h) == h # EmptyBag

\* A new, empty fn_queue / frontier_qubits for each call.
NewQueue(old) == <<>>

\* run(q) -> run_with_state -> get_opfns_and_frontier(q): heap.push(q).
Start ==
    /\ pc = "build"
    /\ Todo = {}
    /\ pc' = "loop"
    /\ heap' = SetToBag({terminal})
    /\ frontier_qubits' = <<>>
    /\ fn_queue' = NewQueue(fn_queue)
    /\ popped' = <<>>
    /\ runs' = 1
    /\ UNCHANGED <<graphVars, runVars, engVars, first>>

\* One iteration of the while loop.
Pop ==
    /\ pc = "loop"
    /\ LoopCond(heap)
    /\ \E q \in HeapTop(heap) :
         LET h1 == HeapRemove(heap, q) IN
         /\ popped' = Append(popped, q)
         /\ CASE parent[q].kind = "owned" ->
                   /\ fn_queue' = IF parent[q].op.some
                                  THEN PushFront(fn_queue, OpRef(q))
                                  ELSE fn_queue
                   /\ heap' = HeapExtend(h1, parent[q].parents)
                   /\ UNCHANGED frontier_qubits
              [] parent[q].kind = "shared" ->
                   /\ heap' = PushShared(h1, parent[q].ref)
                   /\ UNCHANGED <<frontier_qubits, fn_queue>>
              [] OTHER ->
                   /\ frontier_qubits' = FrontierPush(frontier_qubits, q)
                   /\ heap' = h1
                   /\ UNCHANGED fn_queue
    /\ UNCHANGED <<graphVars, runVars, engVars, reVars, pc>>

\* The loop ends; (frontier_qubits, fn_queue.into_iter().collect()) returns.
Return ==
    /\ pc = "loop"
    /\ ~LoopCond(heap)
    /\ pc' = "state_builder"
    /\ frontier' = frontier_qubits
    /\ ops' = fn_queue
    /\ UNCHANGED <<graphVars, linVars, k, cur, builds, applied, engVars, reVars>>

\* Two calls of get_opfns_and_frontier on the same graph and terminal: the
\* second starts from the returned result of the first.
Relinearize ==
    /\ pc = "state_builder"
    /\ runs = 1
    /\ first' = <<frontier, ops>>
    /\ runs' = 2
    /\ pc' = "loop"
    /\ heap' = SetToBag({terminal})
    /\ frontier_qubits' = <<>>
    /\ fn_queue' = NewQueue(fn_queue)
    /\ popped' = <<>>
    /\ UNCHANGED <<graphVars, runVars, engVars>>

\* ------------------------------------------------- LocalQuantumState
EmptyVec == [i \in {} |-> 0]

\* 1 << n.  Nothing gives the literal 1 a type but the literal 0 it forms
\* a range with, so it is an i32; n is a u64.  A shift by ShiftWidth or more
\* panics when the build checks overflow and otherwise shifts by
\* n % ShiftWidth; a shift by ShiftWidth - 1 gives the least i32.
WrapShl(sh) ==
    IF sh = ShiftWidth - 1
    THEN (0 - 2 ^ (ShiftWidth - 2)) - 2 ^ (ShiftWidth - 2)
    ELSE 2 ^ sh
Shl1(nn) ==
    IF nn < ShiftWidth THEN [panic |-> FALSE, val |-> WrapShl(nn)]
    ELSE IF cfg.overflow_checks THEN [panic |-> TRUE, val |-> 0]
    ELSE [panic |-> FALSE, val |-> WrapShl(nn % ShiftWidth)]

\* The range 0..end, empty when end is not positive.
RangeTo(end) == IF end <= 0 THEN {} ELSE 0..(end - 1)

\* A panic inside LocalQuantumState::new: no state is built.
NewPanicked(nn) ==
    [n |-> nn, state |-> EmptyVec, arena |-> EmptyVec, panicked |-> TRUE]

\* LocalQuantumState::new: 1 << n zero amplitudes (none when the length is
\* not positive), then cvec[0].re = 1.0, which panics on an empty vector;
\* state is a clone of cvec and arena is cvec.
NewNoOne(nn) ==
    LET len == Shl1(nn)
        cvec == [i \in RangeTo(len.val) |-> 0]
    IN IF len.panic \/ 0 \notin DOMAIN cvec THEN NewPanicked(nn)
       ELSE [n |-> nn, state |-> cvec, arena |-> cvec, panicked |-> FALSE]
New(nn) ==
    LET len == Shl1(nn)
        cvec == [i \in RangeTo(len.val) |-> IF i = 0 THEN 1 ELSE 0]
    IN IF len.panic \/ 0 \notin DOMAIN cvec THEN NewPanicked(nn)
       ELSE [n |-> nn, state |-> cvec, arena |-> cvec, panicked |-> FALSE]

VecLen(v) == Cardinality(DOMAIN v)

\* The bit of an amplitude index that holds wire w: wire 0 is the most
\* significant of the n bits.
BitPos(nn, w) == nn - 1 - w
Bit(i, b) == (i \div (2 ^ b)) % 2
Flip(i, b) == IF Bit(i, b) = 0 THEN i + 2 ^ b ELSE i - 2 ^ b

\* A controlled NOT carries its control wires c and target wires t in its
\* wire field: it acts on the indices whose control bits are all 1 and
\* flips every target bit.
CtrlOn(nn, op, i) == \A c \in op.wire.c : Bit(i, BitPos(nn, c)) = 1
RECURSIVE FlipAll(_, _, _)
FlipAll(nn, ws, i) ==
    IF ws = {} THEN i
    ELSE LET w == CHOOSE x \in ws : TRUE
         IN FlipAll(nn, ws \ {w}, Flip(i, BitPos(nn, w)))
CtrlSrc(nn, op, i) == IF CtrlOn(nn, op, i) THEN FlipAll(nn, op.wire.t, i) ELSE i

\* The source indices the output amplitude i of op depends on.
ReadSet(nn, op, i) ==
    IF op.kind = "cx" THEN {CtrlSrc(nn, op, i)}
    ELSE IF op.kind = "not" THEN {Flip(i, BitPos(nn, op.wire))}
    ELSE {i, Flip(i, BitPos(nn, op.wire))}

\* state_ops::apply_op, one output row: the amplitude of index i after op,
\* from the source buffer.
Row(nn, op, src, i) ==
    LET b == BitPos(nn, op.wire) IN
    IF op.kind = "cx" THEN src[CtrlSrc(nn, op, i)]
    ELSE IF op.kind = "not" THEN src[Flip(i, b)]
    ELSE IF Bit(i, b) = 0 THEN src[i] + src[Flip(i, b)]
    ELSE src[Flip(i, b)] - src[i]

\* What a sequential pass leaves in the destination buffer.
SeqKernel(nn, op, src, dst) == [i \in DOMAIN dst |-> Row(nn, op, src, i)]

\* The output indices worker w of the parallel pass owns.
ChunkOfShort(w, len) ==
    {i \in 0..(len - 1) :
        /\ ((w - 1) * len) \div NumWorkers < i
        /\ i < (w * len) \div NumWorkers}
ChunkOf(w, len) ==
    {i \in 0..(len - 1) :
        /\ ((w - 1) * len) \div NumWorkers <= i
        /\ i < (w * len) \div NumWorkers}

\* apply_op(self.n, op, &self.state, &mut self.arena, 0, 0, ...): the buffer
\* the kernel writes.
KernelDstInPlace == "state"
KernelDst == "arena"

\* self.n > PARALLEL_THRESHOLD
Multithread(nn) == nn > PARALLEL_THRESHOLD

\* std::mem::swap(&mut self.state, &mut self.arena): <<new state, new arena>>.
MemSwapCopy(s, a) == <<a, a>>
MemSwap(s, a) == <<a, s>>

\* ------------------------------------------------------ run_with_state
RECURSIVE WireSum(_)
\* qs.iter().map(|q| q.indices.len() as u64).sum()
WireSum(qs) == IF qs = <<>> THEN 0 ELSE indices_len[Head(qs)] + WireSum(Tail(qs))

\* The state builder of run: LocalQuantumState::new(n).
StateBuilder(qs) == New(WireSum(qs))

\* ops.into_iter(): the next operation after `taken` have been taken.
HasNext(list, taken) == taken < Len(list)
NextOpFromBack(list, taken) == list[Len(list) - taken]
NextOp(list, taken) == list[taken + 1]

\* let initial_state = state_builder(frontier);
BuildState ==
    /\ pc = "state_builder"
    /\ LET s == StateBuilder(frontier) IN
         /\ n' = s.n
         /\ state' = s.state
         /\ arena' = s.arena
         /\ committed' = s.state
         /\ pc' = IF s.panicked THEN "panic" ELSE "fold"
    /\ builds' = builds + 1
    /\ UNCHANGED <<graphVars, linVars, frontier, ops, k, cur, applied,
                   wdone, swaps, wlog, hazard, reVars>>

\* fold_apply_op calls s.apply_op(op) on the next operation; apply_op hands
\* the kernel its buffers and the multithread flag.
ApplyOpBegin ==
    /\ pc = "fold"
    /\ HasNext(ops, k)
    /\ cur' = NextOp(ops, k)
    /\ k' = k + 1
    /\ applied' = Append(applied, NextOp(ops, k))
    /\ wdone' = {}
    /\ wlog' = {}
    /\ pc' = IF Multithread(n) THEN "par" ELSE "seq"
    /\ UNCHANGED <<graphVars, linVars, frontier, ops, builds,
                   n, state, arena, swaps, committed, hazard, reVars>>

\* Worker w (0: the calling thread of the sequential pass) computes the rows
\* of `rows` from self.state and stores them in the destination buffer.
WriteRows(w, rows) ==
    /\ IF KernelDst = "arena"
       THEN /\ arena' = [i \in DOMAIN arena |->
                            IF i \in rows THEN Row(n, cur, state, i) ELSE arena[i]]
            /\ UNCHANGED state
       ELSE /\ state' = [i \in DOMAIN state |->
                            IF i \in rows THEN Row(n, cur, state, i) ELSE state[i]]
            /\ UNCHANGED arena
    /\ wlog' = wlog \cup {<<w, KernelDst, i>> : i \in rows}
    /\ hazard' = (hazard \/ \E i \in rows : \E e \in wlog :
                                /\ e[2] = "state"
                                /\ e[3] \in ReadSet(n, cur, i))

\* The sequential path: one pass over every output index.
KernelSeq ==
    /\ pc = "seq"
    /\ WriteRows(0, DOMAIN arena)
    /\ pc' = "swap"
    /\ UNCHANGED <<graphVars, linVars, runVars, n, wdone, swaps, committed, reVars>>

\* The parallel path: worker w writes the rows of its range.
KernelWorker(w) ==
    /\ pc = "par"
    /\ w \notin wdone
    /\ WriteRows(w, ChunkOf(w, VecLen(arena)))
    /\ wdone' = wdone \cup {w}
    /\ UNCHANGED <<graphVars, linVars, runVars, n, swaps, committed, reVars, pc>>

\* The parallel pass returns when every worker has finished.
KernelJoin ==
    /\ pc = "par"
    /\ wdone = Workers
    /\ pc' = "swap"
    /\ UNCHANGED <<graphVars, linVars, runVars, engVars, reVars>>

\* std::mem::swap(&mut self.state, &mut self.arena); apply_op returns.
SwapBuffers ==
    /\ pc = "swap"
    /\ state' = MemSwap(state, arena)[1]
    /\ arena' = MemSwap(state, arena)[2]
    /\ committed' = MemSwap(state, arena)[1]
    /\ swaps' = swaps + 1
    /\ pc' = "fold"
    /\ UNCHANGED <<graphVars, linVars, runVars, n, wdone, wlog, hazard, reVars>>

\* The fold has taken every operation: run_with_state returns the state.
FoldDone ==
    /\ pc = "fold"
    /\ ~HasNext(ops, k)
    /\ pc' = "done"
    /\ UNCHANGED <<graphVars, linVars, runVars, engVars, reVars>>

Linearize == Start \/ Pop \/ Return
Fold ==
    \/ ApplyOpBegin
    \/ KernelSeq
    \/ \E w \in Workers : KernelWorker(w)
    \/ KernelJoin
    \/ SwapBuffers
    \/ FoldDone

Next == Decide \/ Linearize \/ BuildState \/ Fold

\* run on every graph of at most NumRegs registers.
Spec == Init /\ [][Next]_vars

\* run_with_state from its fold on: a state new(n) and any operation list.
InitEngine ==
    /\ cfg = [regs |-> {}, wires |-> 0, kinds |-> {}, overflow_checks |-> TRUE]
    /\ BldIdle
    /\ terminal = 0
    /\ parent = [r \in AllIds |-> Absent]
    /\ indices_len = [r \in AllIds |-> 0]
    /\ runs = 0
    /\ first = <<>>
    /\ LinInit
    /\ frontier = <<>>
    /\ cur = NoOp
    /\ applied = <<>>
    /\ k = 0
    /\ builds = 1
    /\ pc = "fold"
    /\ wdone = {}
    /\ swaps = 0
    /\ wlog = {}
    /\ hazard = FALSE
    /\ n \in 1..MaxN
    /\ state = New(n).state
    /\ arena = New(n).arena
    /\ committed = New(n).state
    /\ ops \in UNION {[1..m -> EngineOps(n)] : m \in 0..MaxOps}

NextTwice == Decide \/ Linearize \/ Relinearize

\* run on every graph of up to WideRegs one-wire registers.
SpecWide == InitWide /\ [][Next]_vars

\* get_opfns_and_frontier called twice on the same graph.
SpecTwice == Init /\ [][NextTwice]_vars

\* The graphs of Init with one wire per parent-less register: how long run
\* takes to return does not depend on the wire counts.
InitFair ==
    /\ GraphInit(1..NumRegs, 1, {"not"}, {NumRegs})
    /\ LinInit /\ RunInit /\ EngInit

\* run's single thread keeps running, and so do the kernel's workers.
SpecFair == InitFair /\ [][Next]_vars /\ WF_vars(Next)

\* LocalQuantumState under any operation list.
SpecEngine == InitEngine /\ [][Fold]_vars

\* run_with_state on one parent-less register of w wires and any operation
\* list: w small, or around the width of the shift of new; the build checks
\* integer overflow or does not.
WireCounts == (0..MaxWires) \cup ((ShiftWidth - 1)..(ShiftWidth + MaxWires))
InitNew ==
    /\ \E oc \in BOOLEAN :
          cfg = [regs |-> {1}, wires |-> 0, kinds |-> {}, overflow_checks |-> oc]
    /\ BldIdle
    /\ terminal = 1
    /\ parent = [r \in AllIds |-> IF r = 1 THEN NoParent ELSE Absent]
    /\ \E w \in WireCounts :
          /\ indices_len = [r \in AllIds |-> IF r = 1 THEN w ELSE 0]
          /\ ops \in UNION {[1..m -> IF w <= MaxWires THEN EngineOps(w) ELSE {}]
                               : m \in 0..MaxOps}
    /\ runs = 0
    /\ first = <<>>
    /\ LinInit /\ EngInit
    /\ frontier = <<1>>
    /\ k = 0
    /\ cur = NoOp
    /\ builds = 0
    /\ applied = <<>>
    /\ pc = "state_builder"

NextNew == BuildState \/ Fold

SpecNew == InitNew /\ [][NextNew]_vars

\* ------------------------------------------------- common_circuits.rs
\* The builder (OpBuilder, UnitaryBuilder and the conditioned builder that
\* with_condition returns) keeps the provenance graph: every call makes new
\* registers whose ids count up, so a register's id is greater than the
\* ids of the registers it is derived from.
CircRegs == 2 * MaxPair + 8
CircIds == 1..CircRegs
Errors == {"e1", "e2"}

G == [parent |-> parent, indices |-> indices,
      next_id |-> next_id, next_wire |-> next_wire]

NewReg(g, par, idx) ==
    [g |-> [g EXCEPT !.parent[g.next_id] = par,
                     !.indices[g.next_id] = idx,
                     !.next_id = @ + 1],
     out |-> g.next_id]

Elems(seq) == {seq[i] : i \in 1..Len(seq)}

RECURSIVE Concat(_, _)
Concat(g, regs) ==
    IF regs = <<>> THEN <<>>
    ELSE g.indices[Head(regs)] \o Concat(g, Tail(regs))

\* b.r(w): a parent-less register of the next w wires.
B_r(g, w) ==
    LET x == NewReg(g, NoParent, [i \in 1..w |-> g.next_wire + i - 1])
    IN [g |-> [x.g EXCEPT !.next_wire = @ + w], out |-> x.out]

\* b.hadamard(r), b.not(r) on a register of one wire.
B_gate(g, r, kind) ==
    NewReg(g, Owned({r}, SomeOp(kind, g.indices[r][1])), g.indices[r])

\* b.merge(regs): one register that owns regs, without an operation.
B_merge(g, regs) == NewReg(g, Owned(Elems(regs), NoOp), Concat(g, regs))

\* One alias of register d for each index list of idxs.
RECURSIVE Aliases(_, _, _)
Aliases(g, d, idxs) ==
    IF idxs = <<>> THEN [g |-> g, out |-> <<>>]
    ELSE LET x == NewReg(g, Shared(d), Head(idxs))
             rest == Aliases(x.g, d, Tail(idxs))
         IN [g |-> rest.g, out |-> <<x.out>> \o rest.out]

\* b.split_all(r): one register per wire of r, each an alias of r.
B_split_all(g, r) ==
    IF Len(g.indices[r]) = 1 THEN [g |-> g, out |-> <<r>>]
    ELSE Aliases(g, r, [i \in 1..Len(g.indices[r]) |-> <<g.indices[r][i]>>])

CtrlKind(kind) ==
    CASE kind = "not" -> "cx"
      [] kind = "swap" -> "cswap"
      [] kind = "mat" -> "cmat"
      [] OTHER -> "crealmat"

\* A call on the conditioned builder that holds cr: one register owns cr and
\* the arguments and carries the controlled operation; cr and each argument
\* come back as aliases of it.
C_call(g, cr, rs, kind) ==
    LET op == SomeOp(CtrlKind(kind),
                     [c |-> Elems(g.indices[cr]), t |-> Elems(Concat(g, rs))])
        m == NewReg(g, Owned({cr} \cup Elems(rs), op),
                    g.indices[cr] \o Concat(g, rs))
        al == Aliases(m.g, m.out,
                      <<g.indices[cr]>> \o [i \in 1..Len(rs) |-> g.indices[rs[i]]])
    IN [g |-> al.g, cr |-> Head(al.out), out |-> Tail(al.out)]

SetGraph(g) ==
    /\ parent' = g.parent
    /\ indices' = g.indices
    /\ indices_len' = [r \in DOMAIN g.indices |-> Len(g.indices[r])]
    /\ next_id' = g.next_id
    /\ next_wire' = g.next_wire

KeepGraph == UNCHANGED <<parent, indices, indices_len, next_id, next_wire>>

CircFrame == UNCHANGED <<cfg, circ, terminal, pc, linVars, runVars, engVars, reVars>>

\* A builder call, as the history keeps it: the method, the builder it was
\* called on ("b", or "c" for the conditioned one) and its arguments.
Event(call, on, arg) == [call |-> call, on |-> on, arg |-> arg]

\* Result values.
Ok(v) == [ok |-> TRUE, val |-> v, err |-> "none"]
Err(e) == [ok |-> FALSE, val |-> <<>>, err |-> e]
Unset == Err("unset")

LocInit(c) ==
    [in |-> <<>>, prep_left |-> c.prep,
     cr |-> 0, rs |-> <<>>, kind |-> "none",
     fout |-> Unset, released |-> 0, cret |-> [cr |-> 0, out |-> Unset],
     ret |-> Unset,
     m |-> 0, r |-> 0, ers |-> 0, all_rs |-> <<>>, back_rs |-> <<>>,
     ra |-> 0, rb |-> 0]

\* a - b in u64: below zero the build panics when it checks overflow, and
\* otherwise the result wraps to a - b + 2^64 (val then holds a - b).
SubU64(a, b) ==
    IF a >= b THEN [panic |-> FALSE, wrapped |-> FALSE, val |-> a - b]
    ELSE IF cfg.overflow_checks THEN [panic |-> TRUE, wrapped |-> FALSE, val |-> 0]
    ELSE [panic |-> FALSE, wrapped |-> TRUE, val |-> a - b]

\* The wires of the registers a scenario hands to cnot, cswap, cmat, crealmat:
\* the control register first.
InputWidths(prog) == IF prog = "cswap" THEN <<1, 1, 1>> ELSE <<1, 1>>

\* The builder call inside the closure each function hands to condition.
ClosureCall(prog) ==
    CASE prog = "cswap" -> "swap"
      [] prog = "cmat" -> "mat"
      [] prog = "crealmat" -> "real_mat"
      [] OTHER -> "not"

\* The scenario allocates its input registers, one b.r call each.
ScenarioR ==
    /\ pc = "circuit" /\ bpc = "alloc"
    /\ Len(loc.in) < Len(InputWidths(circ.prog))
    /\ LET w == InputWidths(circ.prog)[Len(loc.in) + 1]
           x == B_r(G, w)
       IN /\ SetGraph(x.g)
          /\ loc' = [loc EXCEPT !.in = Append(@, x.out)]
          /\ events' = Append(events, Event("r", "b", <<w, 0>>))
    /\ UNCHANGED <<bpc, cond>>
    /\ CircFrame

\* The scenario applies a NOT to each input register it wants set.
ScenarioPrep ==
    /\ pc = "circuit" /\ bpc = "alloc"
    /\ Len(loc.in) = Len(InputWidths(circ.prog))
    /\ loc.prep_left # {}
    /\ LET i == CHOOSE x \in loc.prep_left : \A y \in loc.prep_left : x <= y
           x == B_gate(G, loc.in[i], "not")
       IN /\ SetGraph(x.g)
          /\ loc' = [loc EXCEPT !.in[i] = x.out, !.prep_left = @ \ {i}]
          /\ events' = Append(events, Event("not", "b", <<loc.in[i]>>))
    /\ UNCHANGED <<bpc, cond>>
    /\ CircFrame

\* cnot, cswap, cmat, crealmat: each calls condition with its control
\* register, its other registers and a closure.
CallWrapper ==
    /\ pc = "circuit" /\ bpc = "alloc"
    /\ Len(loc.in) = Len(InputWidths(circ.prog))
    /\ loc.prep_left = {}
    /\ loc' = [loc EXCEPT !.cr = Head(loc.in), !.rs = Tail(loc.in),
                          !.kind = ClosureCall(circ.prog)]
    /\ bpc' = "acquire"
    /\ KeepGraph
    /\ UNCHANGED <<cond, events>>
    /\ CircFrame

\* epr_pair: let m = 2 * n; let r = b.r(1);
EprR1 ==
    /\ pc = "circuit" /\ bpc = "e_r"
    /\ LET x == B_r(G, 1)
       IN /\ SetGraph(x.g)
          /\ loc' = [loc EXCEPT !.m = 2 * circ.n, !.r = x.out]
          /\ events' = Append(events, Event("r", "b", <<1, 0>>))
    /\ bpc' = "e_rs"
    /\ UNCHANGED cond
    /\ CircFrame

\* epr_pair: let rs = b.r(m - 1);  A request of 2^64 - 1 wires cannot be
\* met: the builder panics.
EprR2 ==
    /\ pc = "circuit" /\ bpc = "e_rs"
    /\ LET sz == SubU64(loc.m, 1)
           x == B_r(G, sz.val)
       IN IF sz.panic \/ sz.wrapped
          THEN /\ bpc' = "panic"
               /\ events' = IF sz.wrapped
                            THEN Append(events, Event("r", "b", <<sz.val, 1>>))
                            ELSE events
               /\ KeepGraph
               /\ UNCHANGED loc
          ELSE /\ bpc' = "e_h"
               /\ SetGraph(x.g)
               /\ loc' = [loc EXCEPT !.ers = x.out]
               /\ events' = Append(events, Event("r", "b", <<sz.val, 0>>))
    /\ UNCHANGED cond
    /\ CircFrame

\* epr_pair: let r = b.hadamard(r);
EprGateNot == "not"
EprGate == "h"
EprHadamard ==
    /\ pc = "circuit" /\ bpc = "e_h"
    /\ LET x == B_gate(G, loc.r, EprGate)
       IN /\ SetGraph(x.g)
          /\ loc' = [loc EXCEPT !.r = x.out]
          /\ events' = Append(events, Event(EprGate, "b", <<loc.r>>))
    /\ bpc' = "e_cond"
    /\ UNCHANGED cond
    /\ CircFrame

\* epr_pair: condition(b, r, rs, |b, rs| b.not(rs))
EprCondition ==
    /\ pc = "circuit" /\ bpc = "e_cond"
    /\ loc' = [loc EXCEPT !.cr = loc.r, !.rs = <<loc.ers>>,
                          !.kind = ClosureCall(circ.prog)]
    /\ bpc' = "acquire"
    /\ KeepGraph
    /\ UNCHANGED <<cond, events>>
    /\ CircFrame

\* condition: the order of its three statements and its return.
CondStepReleaseFirst(step) ==
    CASE step = "acquire" -> "release"
      [] step = "release" -> "f"
      [] OTHER -> "return"
CondStep(step) ==
    CASE step = "acquire" -> "f"
      [] step = "f" -> "release"
      [] OTHER -> "return"

\* condition: let mut c = b.with_condition(cr);
CondAcquire ==
    /\ pc = "circuit" /\ bpc = "acquire"
    /\ cond' = <<loc.cr>>
    /\ events' = Append(events, Event("with_condition", "b", <<loc.cr>>))
    /\ bpc' = CondStep("acquire")
    /\ KeepGraph
    /\ UNCHANGED loc
    /\ CircFrame

\* condition: let rs = f(&mut c, rs);  The closure makes its one call on c.
\* swap, mat and real_mat return a Result, and Err without building anything.
CondCallF ==
    /\ pc = "circuit" /\ bpc = "f"
    /\ LET ctl == IF cond = <<>> THEN loc.released ELSE Head(cond)
           x == C_call(G, ctl, loc.rs, loc.kind)
           trace == <<Event("f", "b", loc.rs), Event(loc.kind, "c", loc.rs)>>
       IN IF circ.err # "none" /\ loc.kind # "not"
          THEN /\ KeepGraph
               /\ loc' = [loc EXCEPT !.fout = Err(circ.err)]
               /\ events' = events \o trace \o <<Event("f_ret", "b", <<>>)>>
               /\ UNCHANGED cond
          ELSE /\ SetGraph(x.g)
               /\ loc' = [loc EXCEPT !.fout = Ok(x.out)]
               /\ events' = events \o trace \o <<Event("f_ret", "b", x.out)>>
               /\ cond' = IF cond = <<>> THEN cond ELSE <<x.cr>>
    /\ bpc' = CondStep("f")
    /\ CircFrame

\* condition: let r = c.release_register();
CondRelease ==
    /\ pc = "circuit" /\ bpc = "release"
    /\ LET r == IF cond = <<>> THEN 0 ELSE Head(cond)
       IN /\ loc' = [loc EXCEPT !.released = r]
          /\ events' = Append(events, Event("release_register", "c", <<r>>))
    /\ cond' = <<>>
    /\ bpc' = CondStep("release")
    /\ KeepGraph
    /\ CircFrame

\* condition: (r, rs)
CondReturn ==
    /\ pc = "circuit" /\ bpc = "return"
    /\ loc' = [loc EXCEPT !.cret = [cr |-> loc.released, out |-> loc.fout]]
    /\ bpc' = IF circ.prog = "epr" THEN "e_split" ELSE "wrap_ret"
    /\ KeepGraph
    /\ UNCHANGED <<cond, events>>
    /\ CircFrame

\* result.map(|rs| (cr, rs...)): the control register is put in front of an
\* Ok value; an Err is passed on as it is.
ResultMapLoseErr(result, cr) == Ok(<<cr>> \o result.val)
ResultMap(result, cr) ==
    IF result.ok THEN Ok(<<cr>> \o result.val) ELSE Err(result.err)

\* cnot returns condition's pair; cswap, cmat, crealmat map the Result.
WrapperReturn ==
    /\ pc = "circuit" /\ bpc = "wrap_ret"
    /\ loc' = [loc EXCEPT !.ret =
                  IF circ.prog = "cnot"
                  THEN Ok(<<loc.cret.cr>> \o loc.cret.out.val)
                  ELSE ResultMap(loc.cret.out, loc.cret.cr)]
    /\ bpc' = IF circ.prog = "cnot" THEN "merge_out" ELSE "returned"
    /\ KeepGraph
    /\ UNCHANGED <<cond, events>>
    /\ CircFrame

\* epr_pair: let (r, rs) = condition(..); let mut all_rs = vec![r];
\* all_rs.extend(b.split_all(rs));
EprSplit ==
    /\ pc = "circuit" /\ bpc = "e_split"
    /\ LET rs == Head(loc.cret.out.val)
           x == B_split_all(G, rs)
       IN /\ SetGraph(x.g)
          /\ loc' = [loc EXCEPT !.r = loc.cret.cr, !.ers = rs,
                                !.all_rs = <<loc.cret.cr>> \o x.out]
          /\ events' = Append(events, Event("split_all", "b", <<rs>>))
    /\ bpc' = "e_split_off"
    /\ UNCHANGED cond
    /\ CircFrame

\* Vec::split_off(at): the vector keeps [0, at), the rest is returned.
SplitOff(v, at) == <<SubSeq(v, 1, at), SubSeq(v, at + 1, Len(v))>>

\* epr_pair: let back_rs = all_rs.split_off(n as usize);
EprSplitOff ==
    /\ pc = "circuit" /\ bpc = "e_split_off"
    /\ LET sp == SplitOff(loc.all_rs, circ.n)
       IN loc' = [loc EXCEPT !.all_rs = sp[1], !.back_rs = sp[2]]
    /\ bpc' = "e_merge_a"
    /\ KeepGraph
    /\ UNCHANGED <<cond, events>>
    /\ CircFrame

\* epr_pair: let ra = b.merge(all_rs);
EprMergeA ==
    /\ pc = "circuit" /\ bpc = "e_merge_a"
    /\ LET x == B_merge(G, loc.all_rs)
       IN /\ SetGraph(x.g)
          /\ loc' = [loc EXCEPT !.ra = x.out]
          /\ events' = Append(events, Event("merge", "b", loc.all_rs))
    /\ bpc' = "e_merge_b"
    /\ UNCHANGED cond
    /\ CircFrame

\* epr_pair: let rb = b.merge(back_rs);
EprMergeB ==
    /\ pc = "circuit" /\ bpc = "e_merge_b"
    /\ LET x == B_merge(G, loc.back_rs)
       IN /\ SetGraph(x.g)
          /\ loc' = [loc EXCEPT !.rb = x.out]
          /\ events' = Append(events, Event("merge", "b", loc.back_rs))
    /\ bpc' = "e_ret"
    /\ UNCHANGED cond
    /\ CircFrame

\* epr_pair: (ra, rb)
EprReturn ==
    /\ pc = "circuit" /\ bpc = "e_ret"
    /\ loc' = [loc EXCEPT !.ret = Ok(<<loc.ra, loc.rb>>)]
    /\ bpc' = "merge_out"
    /\ KeepGraph
    /\ UNCHANGED <<cond, events>>
    /\ CircFrame

\* The scenario merges the registers it got back into the terminal register
\* it hands to run.
ScenarioMerge ==
    /\ pc = "circuit" /\ bpc = "merge_out"
    /\ LET x == B_merge(G, loc.ret.val)
       IN /\ SetGraph(x.g)
          /\ terminal' = x.out
          /\ events' = Append(events, Event("merge", "b", loc.ret.val))
    /\ bpc' = "built"
    /\ pc' = "build"
    /\ UNCHANGED <<cfg, circ, loc, cond, linVars, runVars, engVars, reVars>>

\* The circuits: the controlled-NOT scenario with a NOT on any of its two
\* input registers first; epr_pair(b, n); cswap, cmat, crealmat whose
\* wrapped call succeeds or fails with an error.
Circuits ==
    {[prog |-> "cnot", n |-> 0, prep |-> p, err |-> "none"] : p \in SUBSET {1, 2}}
    \cup {[prog |-> "epr", n |-> m, prep |-> {}, err |-> "none"] : m \in 0..MaxPair}
    \cup {[prog |-> w, n |-> 0, prep |-> {}, err |-> e] :
            w \in {"cswap", "cmat", "crealmat"}, e \in {"none"} \cup Errors}

InitCircuit ==
    /\ circ \in Circuits
    /\ \E oc \in BOOLEAN :
          cfg = [regs |-> {}, wires |-> 0, kinds |-> {}, overflow_checks |-> oc]
    /\ terminal = 0
    /\ parent = [r \in CircIds |-> Absent]
    /\ indices = [r \in CircIds |-> <<>>]
    /\ indices_len = [r \in CircIds |-> 0]
    /\ pc = "circuit"
    /\ bpc = IF circ.prog = "epr" THEN "e_r" ELSE "alloc"
    /\ loc = LocInit(circ)
    /\ cond = <<>>
    /\ next_id = 1
    /\ next_wire = 0
    /\ events = <<>>
    /\ runs = 0
    /\ first = <<>>
    /\ LinInit /\ RunInit /\ EngInit

Scenario == ScenarioR \/ ScenarioPrep \/ CallWrapper \/ WrapperReturn \/ ScenarioMerge
Condition == CondAcquire \/ CondCallF \/ CondRelease \/ CondReturn
EprPair ==
    \/ EprR1 \/ EprR2 \/ EprHadamard \/ EprCondition
    \/ EprSplit \/ EprSplitOff \/ EprMergeA \/ EprMergeB \/ EprReturn

\* Every circuit that is run has two wires or more, which is above
\* PARALLEL_THRESHOLD: the kernel runs its parallel path.
NextCircuit ==
    \/ Scenario \/ Condition \/ EprPair
    \/ Linearize \/ BuildState
    \/ ApplyOpBegin \/ (\E w \in Workers : KernelWorker(w)) \/ KernelJoin
    \/ SwapBuffers \/ FoldDone

SpecCircuit == InitCircuit /\ [][NextCircuit]_vars

\* Graphs that may hold a cycle, any register the terminal.  The loop is
\* followed for MaxPops iterations.
InitCyclic ==
    /\ GraphInit(1..CycleRegs, 1, {"not"}, 1..CycleRegs)
    /\ LinInit /\ RunInit /\ EngInit

PopCapped == Len(popped) < MaxPops /\ Pop

NextCyclic == Decide \/ DecideBack \/ Start \/ PopCapped \/ Return

SpecCyclic == InitCyclic /\ [][NextCyclic]_vars

\* ------------------------------------------------------------ claims
Occ(seq, x) == Cardinality({i \in 1..Len(seq) : seq[i] = x})
NoRepeat(seq) == \A i, j \in 1..Len(seq) : i # j => seq[i] # seq[j]
Linearized == pc \notin {"build", "loop"}
Last(seq) == seq[Len(seq)]

\* C1: every register reachable from the terminal is popped from the heap
\* exactly once, through Owned edges and Shared aliases alike; no register
\* is recorded twice in the frontier and no operation is queued twice.
C1_ExactlyOnce ==
    /\ \A r \in AllIds : Occ(popped, r) <= 1
    /\ Linearized => \A r \in Reach(terminal) : Occ(popped, r) = 1
    /\ NoRepeat(frontier_qubits)
    /\ NoRepeat(fn_queue)

\* C2: the returned operation list is in forward order: the operation of a
\* register comes after the operations of all the registers it is derived
\* from, and the terminal's operation is last.
C2_ForwardOrder ==
    Linearized =>
        /\ \A i, j \in 1..Len(ops) :
              ops[i].reg \in Ancestors(ops[j].reg) => i < j
        /\ (parent[terminal].kind = "owned" /\ parent[terminal].op.some)
              => Last(ops).reg = terminal

\* C3: the initial state is built once, after the linearization has
\* returned; apply_op is then called once per element of the returned list,
\* in list order, each call starting after the swap of the one before and
\* reading the state that swap committed.
C3_FoldInOrder ==
    /\ builds <= 1
    /\ builds = 1 <=> pc \in {"fold", "seq", "par", "swap", "done"}
    /\ builds = 1 => (heap = EmptyBag /\ frontier = frontier_qubits /\ ops = fn_queue)
    /\ k <= Len(ops)
    /\ applied = SubSeq(ops, 1, k)
    /\ pc = "done" => applied = ops
    /\ pc \in {"seq", "par", "swap"} => (swaps = k - 1 /\ state = committed)
    /\ pc \in {"fold", "done"} => swaps = k

C3_Witness ==
    /\ pc = "done"
    /\ Len(ops) >= 2
    /\ applied = ops
    /\ ops[1].reg # ops[2].reg

C5_Terminates ==
    (pc = "loop") ~> (pc = "done" /\ heap = EmptyBag /\ ~HasNext(ops, k))

C5_Witness ==
    /\ pc = "done"
    /\ Len(popped) >= 4
    /\ Len(applied) >= 1

RECURSIVE SetSum(_)
SetSum(S) ==
    IF S = {} THEN 0
    ELSE LET r == CHOOSE x \in S : TRUE IN indices_len[r] + SetSum(S \ {r})

\* The wires of the parent-less registers the terminal is derived from.
OriginalWires == SetSum({r \in Reach(terminal) : parent[r].kind = "none"})

\* C6: the wire counts of the returned frontier add up to the n the initial
\* state is sized with, and n counts every original wire once.
C6_WireCount ==
    builds = 1 => (n = WireSum(frontier) /\ n = OriginalWires)

IsGround(v, nn) ==
    /\ DOMAIN v = 0..(2 ^ nn - 1)
    /\ v[0] = 1
    /\ \A i \in 1..(2 ^ nn - 1) : v[i] = 0

NoOpInGraph ==
    \A r \in Reach(terminal) : parent[r].kind = "owned" => ~parent[r].op.some

\* C7: new(n) is the ground state (1 at index 0, 0 elsewhere), and run on a
\* graph without operations returns the ground state of the frontier's
\* wire count.
C7_GroundState ==
    /\ (pc = "fold" /\ k = 0) => (IsGround(state, n) /\ IsGround(arena, n))
    /\ (pc = "done" /\ NoOpInGraph) => IsGround(state, WireSum(frontier))

C7_Witness ==
    /\ pc = "done"
    /\ NoOpInGraph
    /\ WireSum(frontier) = 2
    /\ state = [i \in 0..3 |-> IF i = 0 THEN 1 ELSE 0]

RECURSIVE Result(_)
\* The state after the first m operations of ops, applied one at a time to
\* the ground state.
Result(m) ==
    IF m = 0 THEN New(n).state
    ELSE SeqKernel(n, ops[m], Result(m - 1), Result(m - 1))

\* C8: an operation reads state and writes arena only, then the buffers
\* swap once; after k operations state holds the result of all k, arena the
\* state before the k-th, and both keep the length 2^n.
C8_DoubleBuffer ==
    /\ VecLen(state) = 2 ^ n
    /\ VecLen(arena) = 2 ^ n
    /\ \A e \in wlog : e[2] = "arena"
    /\ pc \in {"fold", "done"} =>
          /\ swaps = k
          /\ state = Result(k)
          /\ k >= 1 => arena = Result(k - 1)
    /\ pc \in {"seq", "par", "swap"} =>
          /\ swaps = k - 1
          /\ state = Result(k - 1)

C8_Witness ==
    /\ pc = "fold"
    /\ k = 2
    /\ n = 2
    /\ ops[1].kind = "h"
    /\ ops[2].kind = "not"
    /\ state # arena

\* C9: on the parallel path the workers write disjoint parts of arena and
\* never state, no row reads an amplitude its own pass has written, and all
\* workers have finished before the swap and before the next operation.
C9_WorkersDisjoint ==
    /\ \A e1, e2 \in wlog : e1[1] # e2[1] => <<e1[2], e1[3]>> # <<e2[2], e2[3]>>
    /\ \A e \in wlog : e[2] = "arena"
    /\ ~hazard
    /\ (Multithread(n) /\ k >= 1 /\ pc # "par") => wdone = Workers
    /\ pc = "par" => swaps = k - 1

C9_Witness ==
    /\ pc = "swap"
    /\ Multithread(n)
    /\ wdone = Workers
    /\ k = 2
    /\ cur.wire = 0
    /\ Cardinality(wlog) = 2 ^ n

OnCycle(r) == r \in Ancestors(r)
CycleAhead(q) == \E r \in Reach(q) : OnCycle(r)
C11_CycleNeverTerminates ==
    (pc # "build" /\ CycleAhead(terminal)) =>
        /\ pc = "loop"
        /\ heap # EmptyBag
        /\ \E q \in BagToSet(heap) : CycleAhead(q)
C11_Witness ==
    /\ pc = "loop"
    /\ Len(popped) = MaxPops
    /\ \E r, x \in Reach(terminal) :
          /\ OnCycle(r) /\ OnCycle(x)
          /\ parent[r].kind = "owned" /\ parent[x].kind = "shared"
          /\ Occ(popped, r) >= 2 /\ Occ(popped, x) >= 2

\* C14: when every register's id is greater than the ids of its Owned
\* parents and of its Shared referent, the registers are popped in strictly
\* decreasing id order, a Shared referent is never popped before an alias
\* that points to it, and the frontier is returned in strictly decreasing
\* id order.
Monotone == \A r \in cfg.regs : \A p \in Parents(r) : p < r
Decreasing(seq) == \A i \in 1..(Len(seq) - 1) : seq[i] > seq[i + 1]
AliasFirst ==
    \A i, j \in 1..Len(popped) :
        (parent[popped[i]].kind = "shared" /\ parent[popped[i]].ref = popped[j])
            => i < j
C14_DecreasingIds ==
    (pc # "build" /\ Monotone) =>
        /\ Decreasing(popped)
        /\ AliasFirst
        /\ Decreasing(frontier_qubits)
        /\ Decreasing(frontier)
C14_Witness ==
    /\ pc = "done"
    /\ Monotone
    /\ Len(frontier) >= 1
    /\ \E a, c \in cfg.regs :
          /\ a # c
          /\ parent[a].kind = "shared" /\ parent[c].kind = "shared"
          /\ parent[a].ref = parent[c].ref
          /\ Occ(popped, a) = 1 /\ Occ(popped, c) = 1

Filter(seq, S) == SelectSeq(seq, LAMBDA x : x \in S)
SeqSet(seq) == {seq[i] : i \in 1..Len(seq)}
ParentLess == {r \in cfg.regs : parent[r].kind = "none"}

\* C15: the returned frontier holds exactly the parent-less registers
\* reachable from the terminal, in the order they were popped; a register
\* with a parent is never in it; a parent-less terminal gives the frontier
\* [terminal] and an empty operation list.
C15_Frontier ==
    /\ pc # "build" => frontier_qubits = Filter(popped, ParentLess)
    /\ Linearized =>
          /\ frontier = Filter(popped, ParentLess)
          /\ SeqSet(frontier) = Reach(terminal) \cap ParentLess
          /\ parent[terminal].kind = "none" =>
                (frontier = <<terminal>> /\ ops = <<>>)
C15_Witness ==
    /\ Linearized
    /\ Len(frontier) >= 2
    /\ frontier[1] < frontier[2]
    /\ Len(popped) > Len(frontier) + 1

\* C16: one loop iteration on a register whose parent is Shared(referent)
\* queues no operation and records no frontier register; it pushes the
\* referent only when no equal register is pending, and otherwise leaves
\* the heap as the pop left it.  An iteration on an Owned register pushes
\* every listed parent, pending or not.
Iteration == pc = "loop" /\ pc' = "loop" /\ Len(popped') = Len(popped) + 1
AfterPop(x, q) == CopiesIn(x, heap) - (IF x = q THEN 1 ELSE 0)
C16_Step ==
    Iteration =>
        LET q == Last(popped') IN
        /\ parent[q].kind = "shared" =>
              /\ fn_queue' = fn_queue
              /\ frontier_qubits' = frontier_qubits
              /\ \A x \in DOMAIN parent :
                    CopiesIn(x, heap') =
                        IF x = parent[q].ref /\ AfterPop(x, q) = 0
                        THEN 1 ELSE AfterPop(x, q)
        /\ parent[q].kind = "owned" =>
              \A x \in DOMAIN parent :
                  CopiesIn(x, heap') =
                      AfterPop(x, q) + (IF x \in parent[q].parents THEN 1 ELSE 0)
C16_SharedFrame == [][C16_Step]_vars
\* The second alias of a referent was popped while the referent was pending.
C16_Witness ==
    /\ pc = "loop"
    /\ Len(popped) >= 2
    /\ parent[Last(popped)].kind = "shared"
    /\ \E i \in 1..(Len(popped) - 1) :
          /\ parent[popped[i]].kind = "shared"
          /\ parent[popped[i]].ref = parent[Last(popped)].ref
    /\ Occ(popped, parent[Last(popped)].ref) = 0
    /\ CopiesIn(parent[Last(popped)].ref, heap) = 1

\* C20: for every wire count n, new(n) builds a state buffer and a scratch
\* buffer of exactly 2^n amplitudes each, the length being the machine
\* result of 1 << n, and every later apply_op keeps both lengths at 2^n.
RECURSIVE IsPowerOfTwo(_, _)
IsPowerOfTwo(len, e) ==
    IF e = 0 THEN len = 1
    ELSE len > 0 /\ len % 2 = 0 /\ IsPowerOfTwo(len \div 2, e - 1)
C20_BufferLength ==
    builds >= 1 =>
        /\ pc # "panic"
        /\ IsPowerOfTwo(VecLen(state), WireSum(frontier))
        /\ IsPowerOfTwo(VecLen(arena), WireSum(frontier))
\* The same for the wire counts whose shift does not overflow.
C20_BelowWidth ==
    (builds >= 1 /\ WireSum(frontier) < ShiftWidth - 1) => C20_BufferLength

\* The state of nn wires with amplitude 1 at index at and 0 elsewhere.
Basis(nn, at) == [i \in 0..(2 ^ nn - 1) |-> IF i = at THEN 1 ELSE 0]
\* The index the controlled NOT of the scenario leaves, given which of the
\* two input registers got a NOT first: wire 0 is the control.
CnotIndex(prep) ==
    LET w0 == IF 1 \in prep THEN 1 ELSE 0
        w1 == IF 2 \in prep THEN 1 ELSE 0
    IN 2 * w0 + ((w0 + w1) % 2)

\* C12: on the two-wire ground state, a NOT on wire 0 and then cnot with
\* wire 0 the control and wire 1 the target, built through condition,
\* linearized and run, ends with amplitude 1 (probability 1) at index
\* binary 11 and 0 at 00, 01 and 10; the NOT is applied before the
\* controlled NOT and each exactly once.  With other NOTs first the
\* outcome is the controlled NOT of that basis state.
C12_ControlledNot ==
    (circ.prog = "cnot" /\ pc = "done") =>
        /\ n = 2
        /\ state = Basis(2, CnotIndex(circ.prep))
        /\ circ.prep = {1} =>
              /\ state[3] = 1 /\ state[0] = 0 /\ state[1] = 0 /\ state[2] = 0
              /\ Len(applied) = 2
              /\ applied[1].kind = "not" /\ applied[1].wire = 0
              /\ applied[2].kind = "cx"
              /\ applied[2].wire = [c |-> {0}, t |-> {1}]
C12_Witness ==
    /\ circ.prog = "cnot" /\ circ.prep = {1}
    /\ pc = "done"
    /\ swaps = 2
    /\ state[3] = 1
    /\ \E e \in Elems(events) : e.call = "with_condition"

\* C13: epr_pair(b, 1), linearized and run, ends with amplitudes of equal
\* magnitude, not zero, at exactly the indices 00 and 11, and 0 at 01 and
\* 10; the Hadamard is applied before the controlled NOT.
Abs(x) == IF x < 0 THEN 0 - x ELSE x
C13_EprPair ==
    (circ.prog = "epr" /\ circ.n = 1 /\ pc = "done") =>
        /\ n = 2
        /\ state[0] # 0
        /\ Abs(state[0]) = Abs(state[3])
        /\ state[1] = 0 /\ state[2] = 0
        /\ Len(applied) = 2
        /\ applied[1].kind = "h"
        /\ applied[2].kind = "cx"
C13_Witness ==
    /\ circ.prog = "epr" /\ circ.n = 1
    /\ pc = "done"
    /\ swaps = 2
    /\ state[0] = 1 /\ state[3] = 1

Pos(call) == {i \in 1..Len(events) : events[i].call = call}
CondReturned == loc.cret.out # Unset

\* C17: condition(b, cr, rs, f) takes the conditioned builder with
\* with_condition(cr) exactly once, calls f on it exactly once, calls
\* release_register exactly once and only after f has returned, and returns
\* the released control register with what f returned; every builder call
\* made inside f falls between the acquisition and the release.
C17_ConditionProtocol ==
    /\ \A c \in {"with_condition", "f", "f_ret", "release_register"} :
          Cardinality(Pos(c)) <= 1
    /\ \A i \in Pos("f") : \E a \in Pos("with_condition") : a < i
    /\ \A i \in Pos("f_ret") : \E a \in Pos("f") : a < i
    /\ \A i \in Pos("release_register") : \E a \in Pos("f_ret") : a < i
    /\ \A i \in 1..Len(events) :
          (events[i].on = "c" /\ events[i].call # "release_register") =>
              /\ \E a \in Pos("with_condition") : a < i
              /\ \E a \in Pos("f") : a < i
              /\ \A r \in Pos("f_ret") \cup Pos("release_register") : i < r
    /\ CondReturned =>
          /\ \A c \in {"with_condition", "f", "f_ret", "release_register"} :
                Cardinality(Pos(c)) = 1
          /\ cond = <<>>
          /\ loc.cret.cr # 0
          /\ \A i \in Pos("release_register") : events[i].arg = <<loc.cret.cr>>
          /\ \A i \in Pos("with_condition") : events[i].arg = <<loc.cr>>
          /\ loc.cret.out = loc.fout
          /\ loc.fout.ok => \A i \in Pos("f_ret") : events[i].arg = loc.cret.out.val
C17_Witness ==
    /\ CondReturned
    /\ circ.prog = "cswap" /\ circ.err = "none"
    /\ \E i \in Pos("swap") : events[i].on = "c"
    /\ loc.cret.cr # loc.cr

\* C18: cswap, cmat and crealmat return Err exactly when the wrapped
\* builder call returned Err, with the same error; the control register is
\* released in both cases, and in the Err case it is not handed back.
C18_ErrorPassThrough ==
    (circ.prog \in {"cswap", "cmat", "crealmat"} /\ bpc = "returned") =>
        /\ loc.ret.ok = loc.fout.ok
        /\ loc.ret.ok = (circ.err = "none")
        /\ ~loc.ret.ok => (loc.ret.err = circ.err /\ loc.ret.val = <<>>)
        /\ loc.ret.ok => loc.ret.val = <<loc.released>> \o loc.fout.val
        /\ Cardinality(Pos("release_register")) = 1
        /\ loc.released # 0
        /\ cond = <<>>
C18_Witness ==
    /\ circ.prog = "cmat" /\ bpc = "returned"
    /\ ~loc.ret.ok /\ loc.ret.err = "e2"
    /\ loc.released # 0
    /\ loc.released \notin Elems(loc.ret.val)

\* C19: for every n of the range, n = 0 included, epr_pair(b, n) asks the
\* builder for a register of 1 wire and one of 2n - 1 wires, and returns ra
\* and rb of exactly n wires each, disjoint, together all 2n wires, the
\* wire the Hadamard acted on being the first of ra.
Requests == SelectSeq(events, LAMBDA e : e.call = "r")
HadamardWires ==
    {parent[r].op.wire : r \in {x \in CircIds :
        parent[x].kind = "owned" /\ parent[x].op.some /\ parent[x].op.kind = "h"}}
C19_EprRegisters ==
    circ.prog = "epr" =>
        /\ bpc # "panic"
        /\ Len(Requests) >= 1 => Requests[1].arg = <<1, 0>>
        /\ Len(Requests) >= 2 => Requests[2].arg = <<2 * circ.n - 1, 0>>
        /\ loc.ret.ok =>
              /\ Len(indices[loc.ra]) = circ.n
              /\ Len(indices[loc.rb]) = circ.n
              /\ Elems(indices[loc.ra]) \cap Elems(indices[loc.rb]) = {}
              /\ Elems(indices[loc.ra]) \cup Elems(indices[loc.rb])
                    = 0..(2 * circ.n - 1)
              /\ HadamardWires = {indices[loc.ra][1]}
\* The same for n of 1 and more.
C19_FromOne == circ.n >= 1 => C19_EprRegisters
====
